---- MODULE Spec2Model ----
(***************************************************************************)
(* Model of scripts/tf_inference.py: the SpamClassifier class (load_model, *)
(* predict, get_model_info), create_sample_model and main.                 *)
(*                                                                         *)
(* The external ML runtime (model files, tensors) is the environment: its  *)
(* answers (is the path a directory, does the loader raise, which          *)
(* signatures the loaded object carries, what the forward pass returns)    *)
(* are inputs drawn with \E from the bounded sets below.                   *)
(***************************************************************************)
EXTENDS Integers, Sequences, FiniteSets, TLC

(***************************************************************************)
(* Floating-point values.  A Python float is modelled as a record          *)
(*   [c |-> "fin", v |-> n]   the number n / SCALE (fixed point)           *)
(*   [c |-> "big", v |-> k]   k * 1e20, k # 0: a magnitude at which adding *)
(*                            a "fin" number rounds back to the big one    *)
(*   [c |-> "inf", v |-> s]   s = 1: +inf, s = -1: -inf                    *)
(*   [c |-> "nan", v |-> 0]                                                *)
(***************************************************************************)
SCALE == 10000

\* exp(x) overflows to +inf above 709.7827 and underflows to 0.0 below -745.1332
ExpOverflow == 7097827
ExpUnderflow == -7451332

Fin(n) == [c |-> "fin", v |-> n]
Big(k) == [c |-> "big", v |-> k]
Inf(s) == [c |-> "inf", v |-> s]
NaN == [c |-> "nan", v |-> 0]

One == Fin(SCALE)

\* the literal 0.01 of line 123
Tolerance == Fin(SCALE \div 100)

FNeg(a) == [c |-> a.c, v |-> 0 - a.v]

\* a + b, rounded as IEEE double addition rounds it
FAdd(a, b) ==
    IF a.c = "nan" \/ b.c = "nan" THEN NaN
    ELSE IF a.c = "inf" THEN (IF b.c = "inf" /\ b.v # a.v THEN NaN ELSE a)
    ELSE IF b.c = "inf" THEN b
    ELSE IF a.c = "big" /\ b.c = "big"
         THEN (IF a.v + b.v = 0 THEN Fin(0) ELSE Big(a.v + b.v))
    ELSE IF a.c = "big" THEN a
    ELSE IF b.c = "big" THEN b
    ELSE Fin(a.v + b.v)

FSub(a, b) == FAdd(a, FNeg(b))

FAbs(a) == IF a.v < 0 THEN FNeg(a) ELSE a

\* a > b; every comparison with NaN is False
FGt(a, b) ==
    LET d == FSub(a, b) IN d.c # "nan" /\ d.v > 0

\* the partial sums of the power series of exp(x), x >= 0, in fixed point
RECURSIVE ExpSeries(_, _, _, _)
ExpSeries(x, n, term, acc) ==
    IF term = 0 THEN acc
    ELSE ExpSeries(x, n + 1, (term * x) \div (n * SCALE), acc + term)

ExpFixed(x) ==
    IF x >= 0 THEN ExpSeries(x, 1, SCALE, 0)
    ELSE (SCALE * SCALE) \div ExpSeries(0 - x, 1, SCALE, 0)

\* np.exp on a float64 scalar: overflow gives inf, underflow gives 0.0
FExp(a) ==
    CASE a.c = "nan" -> NaN
      [] a.c = "inf" -> IF a.v > 0 THEN Inf(1) ELSE Fin(0)
      [] a.c = "big" -> IF a.v > 0 THEN Inf(1) ELSE Fin(0)
      [] a.c = "fin" -> IF a.v > ExpOverflow THEN Inf(1)
                        ELSE IF a.v < ExpUnderflow THEN Fin(0)
                        ELSE Fin(ExpFixed(a.v))

\* a / b for the operands line 124 produces: a >= 0, b = a + (something >= 0)
FDiv(a, b) ==
    IF a.c = "nan" \/ b.c = "nan" THEN NaN
    ELSE IF b.c = "inf" THEN (IF a.c = "inf" THEN NaN ELSE Fin(0))
    ELSE IF b.v = 0 THEN NaN
    ELSE Fin((a.v * SCALE) \div b.v)

(***************************************************************************)
(* Bounds of the model.                                                    *)
(***************************************************************************)
\* raw model outputs: c/4 + f/200 for |c| <= MaxCoarse, |f| <= MaxFine (the
\* power series of ExpFixed stays within 32 bits up to 2.9), +-1000*k for
\* k <= MaxHuge (beyond the exp thresholds, below half an ulp of 1e20), and
\* +-k*1e20 for k <= MaxBig
MaxCoarse == 4
MaxFine == 2
MaxHuge == 2
MaxBig == 1
\* the last dimension of the model's output is 0..MaxOutDim
MaxOutDim == 3
\* the 'features' entry has up to NUM_FEATURES + MaxExtraLen elements, each a
\* number (width 0) or a row of up to MaxWidth numbers
MaxExtraLen == 2
MaxWidth == 2
\* calls a client of the imported module makes on its classifier
MaxCalls == 2

\* the 25 of lines 87 and 251
NUM_FEATURES == 25

Sign == {-1, 1}

GridValues ==
    { Fin(c * (SCALE \div 4) + f * (SCALE \div 200)) :
        c \in (0 - MaxCoarse)..MaxCoarse, f \in (0 - MaxFine)..MaxFine }

HugeValues == { Fin(s * k * 1000 * SCALE) : s \in Sign, k \in 1..MaxHuge }

BigValues == { Big(s * k) : s \in Sign, k \in 1..MaxBig }

RawValues == GridValues \cup HugeValues \cup BigValues

\* what the forward pass returns: row 0 of a tensor of shape (1, d)
Outputs ==
    { <<a>> : a \in RawValues }
      \cup { <<a, b>> : a \in RawValues, b \in RawValues }
      \cup { [i \in 1..d |-> Fin(0)] : d \in {0} \cup (3..MaxOutDim) }

\* one forward pass of the loaded model: it raises, or returns `out`
ModelRuns ==
    { [raises |-> TRUE, out |-> << >>] }
      \cup { [raises |-> FALSE, out |-> o] : o \in Outputs }

NoRun == [raises |-> FALSE, out |-> << >>]

\* the value of the 'features' entry of the input (or the argument of predict):
\* a list of len numbers (width 0) or of len rows of width numbers, a string
\* of len characters, or a bare number
Features ==
    { [kind |-> "list", len |-> n, width |-> w] :
        n \in {0} \cup ((NUM_FEATURES - MaxExtraLen)..(NUM_FEATURES + MaxExtraLen)),
        w \in 0..MaxWidth }
      \cup { [kind |-> "list", len |-> n, width |-> n] :
               n \in { m \in 1..NUM_FEATURES : m * m = NUM_FEATURES } }
      \cup { [kind |-> "text", len |-> n, width |-> 0] :
               n \in {NUM_FEATURES - 1, NUM_FEATURES} }
      \cup { [kind |-> "scalar", len |-> 0, width |-> 0] }

NoFeatures == [kind |-> "none", len |-> 0, width |-> 0]

(***************************************************************************)
(* class SpamClassifier                                                    *)
(***************************************************************************)
\* a model path: is it a directory, does its name end in '.h5'
Paths == [isdir : BOOLEAN, h5 : BOOLEAN]

NoModel == [kind |-> "None", serving |-> FALSE]

\* what a loader returns: a SavedModel object (it has the attribute
\* 'signatures', with or without a 'serving_default' entry) or a Keras model
SavedModel(serving) == [kind |-> "SavedModel", serving |-> serving]
KerasModel == [kind |-> "Keras", serving |-> FALSE]

\* the loader's behaviour on this path: raises, or returns a model object that
\* has a 'serving_default' signature or not
LoadEnvs == [raises : BOOLEAN, serving : BOOLEAN]

NoClassifier ==
    [made |-> FALSE, model_path |-> [isdir |-> FALSE, h5 |-> FALSE],
     model |-> NoModel, input_signature |-> "None", output_signature |-> "None"]

\* SpamClassifier.__init__
NewClassifier(path) ==
    [made |-> TRUE, model_path |-> path,
     model |-> NoModel, input_signature |-> "None", output_signature |-> "None"]

\* hasattr(self.model, 'signatures')
HasSignatures(model) == model.kind = "SavedModel"

\* lines 46-55 with the assignment of line 46 made before the loader has
\* returned: a loader that raises leaves a model behind
LoadSavedModelAssignsFirst(cl, env) ==
    [cl |-> [cl EXCEPT !.model = SavedModel(env.serving)],
     ret |-> ~env.raises, loader |-> "tf.saved_model.load",
     raised |-> env.raises]

\* lines 46-55 and 66-70: the SavedModel branch of load_model
LoadSavedModel(cl, env) ==
    IF env.raises
    THEN [cl |-> cl, ret |-> FALSE, loader |-> "tf.saved_model.load",
          raised |-> TRUE]
    ELSE [cl |-> [cl EXCEPT
                    !.model = SavedModel(env.serving),
                    !.input_signature =
                        IF env.serving THEN "structured_input_signature"
                        ELSE @,
                    !.output_signature =
                        IF env.serving THEN "structured_outputs" ELSE @],
          ret |-> TRUE, loader |-> "tf.saved_model.load", raised |-> FALSE]

\* lines 59-60 and 66-70: the Keras branch of load_model
LoadKeras(cl, env) ==
    IF env.raises
    THEN [cl |-> cl, ret |-> FALSE, loader |-> "tf.keras.models.load_model",
          raised |-> TRUE]
    ELSE [cl |-> [cl EXCEPT !.model = KerasModel], ret |-> TRUE,
          loader |-> "tf.keras.models.load_model", raised |-> FALSE]

\* lines 63-64
Unsupported(cl) ==
    [cl |-> cl, ret |-> FALSE, loader |-> "none", raised |-> FALSE]

\* load_model with the suffix tested before the directory
LoadModelSuffixFirst(cl, env) ==
    IF cl.model_path.h5 THEN LoadKeras(cl, env)
    ELSE IF cl.model_path.isdir THEN LoadSavedModel(cl, env)
    ELSE Unsupported(cl)

\* SpamClassifier.load_model: the classifier afterwards, the value returned,
\* the loader that was called and whether it raised
LoadModel(cl, env) ==
    IF cl.model_path.isdir THEN LoadSavedModel(cl, env)
    ELSE IF cl.model_path.h5 THEN LoadKeras(cl, env)
    ELSE Unsupported(cl)

\* the outcome of a load_model call, as the caller and the log see it
LoadOutcome(r) ==
    [ret |-> IF r.ret THEN "True" ELSE "False", loader |-> r.loader,
     raised |-> r.raised]

NoLoad == [ret |-> "none", loader |-> "none", raised |-> FALSE]

\* the columns of np.array(features).reshape(1, -1)
Cols(features) ==
    CASE features.kind = "scalar" -> 1
      [] features.kind = "list" ->
             IF features.width = 0 THEN features.len
             ELSE features.len * features.width
      [] OTHER -> 0

\* np.array(features, dtype=np.float32) succeeds
Convertible(features) == features.kind \in {"list", "scalar"}

\* lines 121-125 with >= for >: a sum off by exactly 0.01 is normalised too
NormalizeAtTolerance(ham_prob, spam_prob) ==
    LET total == FAdd(ham_prob, spam_prob) IN
    IF ~FGt(Tolerance, FAbs(FSub(total, One)))
    THEN LET ham == FDiv(FExp(ham_prob),
                         FAdd(FExp(ham_prob), FExp(spam_prob)))
         IN [ham |-> ham, spam |-> FSub(One, ham), applied |-> TRUE]
    ELSE [ham |-> ham_prob, spam |-> spam_prob, applied |-> FALSE]

\* lines 121-125: the pair, and whether the softmax was applied
Normalize(ham_prob, spam_prob) ==
    LET total == FAdd(ham_prob, spam_prob) IN
    IF FGt(FAbs(FSub(total, One)), Tolerance)
    THEN LET ham == FDiv(FExp(ham_prob),
                         FAdd(FExp(ham_prob), FExp(spam_prob)))
         IN [ham |-> ham, spam |-> FSub(One, ham), applied |-> TRUE]
    ELSE [ham |-> ham_prob, spam |-> spam_prob, applied |-> FALSE]

PredictRaises(error, n, invoked, cols) ==
    [raised |-> TRUE, error |-> error, n |-> n, invoked |-> invoked,
     cols |-> cols, out |-> << >>, ham |-> NaN, spam |-> NaN,
     applied |-> FALSE]

PredictReturns(invoked, cols, out, pair) ==
    [raised |-> FALSE, error |-> "", n |-> 0, invoked |-> invoked,
     cols |-> cols, out |-> out, ham |-> pair.ham, spam |-> pair.spam,
     applied |-> pair.applied]

\* lines 109-127, on the output of the forward pass
PredictOutput(invoked, cols, out) ==
    IF Len(out) = 2
    THEN PredictReturns(invoked, cols, out, Normalize(out[1], out[2]))
    ELSE IF Len(out) = 1
    THEN PredictReturns(invoked, cols, out,
                        Normalize(FSub(One, out[1]), out[1]))
    ELSE PredictRaises("Unexpected output shape", Len(out), invoked, cols)

\* the model is reached: the input converts and has 25 columns
ReachesModel(features) ==
    Convertible(features) /\ Cols(features) = NUM_FEATURES

\* lines 90-127: the forward pass and what is made of its output
RunModel(cl, features, run) ==
    IF HasSignatures(cl.model)
    THEN IF ~cl.model.serving
         THEN PredictRaises("KeyError: 'serving_default'", 0, "none",
                            Cols(features))
         ELSE IF run.raises
         THEN PredictRaises("model raised", 0, "serving_default", Cols(features))
         ELSE PredictOutput("serving_default", Cols(features), run.out)
    ELSE IF cl.model.kind = "None"
    THEN PredictRaises("'NoneType' object is not callable", 0, "none",
                       Cols(features))
    ELSE IF run.raises
    THEN PredictRaises("model raised", 0, "call", Cols(features))
    ELSE PredictOutput("call", Cols(features), run.out)

\* predict without the shape validation of lines 87-88
PredictUnvalidated(cl, features, run) ==
    IF ~Convertible(features)
    THEN PredictRaises("could not convert to float", 0, "none", 0)
    ELSE RunModel(cl, features, run)

\* SpamClassifier.predict, with `run` the forward pass the model would make
Predict(cl, features, run) ==
    IF ~Convertible(features)
    THEN PredictRaises("could not convert to float", 0, "none", 0)
    ELSE IF Cols(features) # NUM_FEATURES
    THEN PredictRaises("Expected 25 features, got", Cols(features), "none",
                       Cols(features))
    ELSE RunModel(cl, features, run)

\* the forward passes predict can make on these features: none when it raises
\* before calling the model
RunsFor(cl, features) ==
    IF ReachesModel(features)
       /\ (IF HasSignatures(cl.model) THEN cl.model.serving
           ELSE cl.model.kind # "None")
    THEN ModelRuns ELSE {NoRun}

NoPredict == PredictRaises("", 0, "none", 0)

\* SpamClassifier.get_model_info
GetModelInfo(cl) ==
    IF HasSignatures(cl.model)
    THEN [model_type |-> "SavedModel",
          input_shape |-> IF cl.input_signature # "None" THEN "shape"
                          ELSE "unknown",
          output_shape |-> IF cl.output_signature # "None" THEN "shape"
                           ELSE "unknown"]
    ELSE [model_type |-> "Keras",
          input_shape |-> IF cl.model.kind = "Keras" THEN "shape" ELSE "unknown",
          output_shape |-> IF cl.model.kind = "Keras" THEN "shape" ELSE "unknown"]

(***************************************************************************)
(* create_sample_model and main                                            *)
(***************************************************************************)
\* the parsed command line
Args ==
    [create_sample : BOOLEAN, model_info : BOOLEAN, output : {"json", "text"},
     model : Paths]

NoArgs ==
    [create_sample |-> FALSE, model_info |-> FALSE, output |-> "json",
     model |-> [isdir |-> FALSE, h5 |-> FALSE]]

\* the input file: open() raises, json.load raises, or the parsed value: an
\* object with or without a 'features' entry, an array that holds the string
\* 'features' or not, or a number
NoData == [kind |-> "none", has |-> FALSE, features |-> NoFeatures]

InputFiles ==
    { [status |-> st, data |-> NoData] : st \in {"missing", "badjson"} }
      \cup { [status |-> "ok",
              data |-> [kind |-> "object", has |-> TRUE, features |-> f]] :
               f \in Features }
      \cup { [status |-> "ok",
              data |-> [kind |-> "object", has |-> FALSE,
                        features |-> NoFeatures]] }
      \cup { [status |-> "ok",
              data |-> [kind |-> "array", has |-> h, features |-> NoFeatures]] :
               h \in BOOLEAN }
      \cup { [status |-> "ok",
              data |-> [kind |-> "number", has |-> FALSE,
                        features |-> NoFeatures]] }

\* print(json.dumps({"error": ...}))
JsonError(msg, n) ==
    [kind |-> "error", fmt |-> "json", body |-> [error |-> msg, n |-> n]]

\* the handler of lines 276-281
ReportException(output, msg, n) ==
    [kind |-> "error", fmt |-> output, body |-> [error |-> msg, n |-> n]]

\* max(a, b) of Python: b only if b > a
PyMax(a, b) == IF FGt(b, a) THEN b ELSE a

\* f"{x:.4f}"
Fmt4(a) == [fmt |-> ".4f", c |-> a.c, digits |-> a.v]

\* lines 261-270
JsonResult(ham_prob, spam_prob) ==
    << [kind |-> "result", fmt |-> "json",
        body |-> [predictions |-> <<ham_prob, spam_prob>>,
                  ham_probability |-> ham_prob,
                  spam_probability |-> spam_prob,
                  is_spam |-> FGt(spam_prob, ham_prob),
                  confidence |-> PyMax(ham_prob, spam_prob)]] >>

\* lines 272-274 with the label decided by spam >= ham
TextResultTieIsSpam(ham_prob, spam_prob) ==
    << [kind |-> "result", fmt |-> "text",
        body |-> [line |-> "Ham/Spam", ham |-> Fmt4(ham_prob),
                  spam |-> Fmt4(spam_prob)]],
       [kind |-> "result", fmt |-> "text",
        body |-> [line |-> "Classification",
                  label |-> IF FGt(ham_prob, spam_prob) THEN "HAM" ELSE "SPAM"]],
       [kind |-> "result", fmt |-> "text",
        body |-> [line |-> "Confidence",
                  confidence |-> Fmt4(PyMax(ham_prob, spam_prob))]] >>

\* lines 272-274
TextResult(ham_prob, spam_prob) ==
    << [kind |-> "result", fmt |-> "text",
        body |-> [line |-> "Ham/Spam", ham |-> Fmt4(ham_prob),
                  spam |-> Fmt4(spam_prob)]],
       [kind |-> "result", fmt |-> "text",
        body |-> [line |-> "Classification",
                  label |-> IF FGt(spam_prob, ham_prob) THEN "SPAM" ELSE "HAM"]],
       [kind |-> "result", fmt |-> "text",
        body |-> [line |-> "Confidence",
                  confidence |-> Fmt4(PyMax(ham_prob, spam_prob))]] >>

VARIABLES
    pc,           \* position: of main, or of a client of the imported module
    args,         \* main: the parsed arguments
    classifier,   \* the SpamClassifier object
    inputData,    \* main: input_data, the parsed input file
    printed,      \* what has been printed on stdout, one entry per print call
    events,       \* the external calls made so far, in order
    loaded,       \* a load_model call on the classifier has returned True
    lastLoad,     \* the outcome of the last load_model call
    lastFeatures, \* the argument of the last predict call
    lastPredict,  \* the outcome of the last predict call
    calls         \* client: the calls made on the classifier

vars ==
    <<pc, args, classifier, inputData, printed, events, loaded, lastLoad,
      lastFeatures, lastPredict, calls>>

\* the script is run (main, after parse_args) or the module is imported
Init ==
    /\ \/ pc = "main" /\ args \in Args
       \/ pc = "imported" /\ args = NoArgs
    /\ classifier = NoClassifier
    /\ inputData = NoData
    /\ printed = << >>
    /\ events = << >>
    /\ loaded = FALSE
    /\ lastLoad = NoLoad
    /\ lastFeatures = NoFeatures
    /\ lastPredict = NoPredict
    /\ calls = 0

\* lines 219-224
MainCreateSample ==
    /\ pc = "main"
    /\ args.create_sample
    /\ \E ok \in BOOLEAN :
         printed' = Append(printed,
             IF ok
             THEN [kind |-> "status", fmt |-> "json",
                   body |-> [status |-> "Sample model created successfully"]]
             ELSE JsonError("Failed to create sample model", 0))
    /\ events' = Append(events, "create_sample_model")
    /\ pc' = "done"
    /\ UNCHANGED <<args, classifier, inputData, loaded, lastLoad,
                   lastFeatures, lastPredict, calls>>

\* lines 226-233 without the return of line 233
MainLoadFallsThrough ==
    /\ pc = "main"
    /\ ~args.create_sample
    /\ \E env \in LoadEnvs :
         LET r == LoadModel(NewClassifier(args.model), env) IN
         /\ classifier' = r.cl
         /\ lastLoad' = LoadOutcome(r)
         /\ loaded' = r.ret
         /\ events' = IF r.loader = "none" THEN events
                      ELSE Append(events, r.loader)
         /\ pc' = "loaded"
         /\ printed' = IF r.ret THEN printed
                       ELSE Append(printed, JsonError("Failed to load model", 0))
    /\ UNCHANGED <<args, inputData, lastFeatures, lastPredict, calls>>

\* lines 226-233
MainLoad ==
    /\ pc = "main"
    /\ ~args.create_sample
    /\ \E env \in LoadEnvs :
         LET r == LoadModel(NewClassifier(args.model), env) IN
         /\ classifier' = r.cl
         /\ lastLoad' = LoadOutcome(r)
         /\ loaded' = r.ret
         /\ events' = IF r.loader = "none" THEN events
                      ELSE Append(events, r.loader)
         /\ IF r.ret
            THEN pc' = "loaded" /\ printed' = printed
            ELSE /\ pc' = "done"
                 /\ printed' = Append(printed, JsonError("Failed to load model", 0))
    /\ UNCHANGED <<args, inputData, lastFeatures, lastPredict, calls>>

\* lines 236-239
MainModelInfo ==
    /\ pc = "loaded"
    /\ args.model_info
    /\ printed' = Append(printed,
           [kind |-> "model_info", fmt |-> "json",
            body |-> GetModelInfo(classifier)])
    /\ events' = Append(events, "get_model_info")
    /\ pc' = "done"
    /\ UNCHANGED <<args, classifier, inputData, loaded, lastLoad,
                   lastFeatures, lastPredict, calls>>

\* lines 242-243: open the input file and parse it
ReadInput ==
    /\ events' = Append(events, "open")
    /\ \E file \in InputFiles :
         IF file.status = "ok"
         THEN /\ inputData' = file.data
              /\ pc' = "parsed"
              /\ printed' = printed
         ELSE /\ inputData' = inputData
              /\ pc' = "done"
              /\ printed' = Append(printed,
                     ReportException(args.output,
                         IF file.status = "missing" THEN "FileNotFoundError"
                         ELSE "JSONDecodeError", 0))
    /\ UNCHANGED <<args, classifier, loaded, lastLoad, lastFeatures,
                   lastPredict, calls>>

\* the input is read whether or not --model-info was given
MainReadInputAnyway ==
    /\ pc = "loaded"
    /\ ReadInput

\* lines 241-243, reached when line 236 found no --model-info
MainReadInput ==
    /\ pc = "loaded"
    /\ ~args.model_info
    /\ ReadInput

\* lines 245-255
MainCheckFeatures ==
    /\ pc = "parsed"
    /\ IF inputData.kind = "number"
       THEN \* 'features' in <number> raises TypeError
            /\ pc' = "done"
            /\ printed' = Append(printed,
                   ReportException(args.output, "TypeError", 0))
       ELSE IF ~inputData.has
       THEN /\ pc' = "done"
            /\ printed' = Append(printed,
                   JsonError("Input file must contain 'features' array", 0))
       ELSE IF inputData.kind = "array"
       THEN \* <list>['features'] raises TypeError
            /\ pc' = "done"
            /\ printed' = Append(printed,
                   ReportException(args.output, "TypeError", 0))
       ELSE IF inputData.features.kind = "scalar"
       THEN \* len(<number>) raises TypeError
            /\ pc' = "done"
            /\ printed' = Append(printed,
                   ReportException(args.output, "TypeError", 0))
       ELSE IF inputData.features.len # NUM_FEATURES
       THEN /\ pc' = "done"
            /\ printed' = Append(printed,
                   JsonError("Expected 25 features, got", inputData.features.len))
       ELSE /\ pc' = "features"
            /\ printed' = printed
    /\ UNCHANGED <<args, classifier, inputData, events, loaded, lastLoad,
                   lastFeatures, lastPredict, calls>>

\* lines 257-281
MainPredict ==
    /\ pc = "features"
    /\ \E run \in RunsFor(classifier, inputData.features) :
         LET r == Predict(classifier, inputData.features, run) IN
         /\ lastPredict' = r
         /\ events' = IF r.invoked = "none" THEN Append(events, "predict")
                      ELSE events \o <<"predict", r.invoked>>
         /\ printed' =
              IF r.raised
              THEN Append(printed, ReportException(args.output, r.error, r.n))
              ELSE IF args.output = "json"
              THEN printed \o JsonResult(r.ham, r.spam)
              ELSE printed \o TextResult(r.ham, r.spam)
    /\ lastFeatures' = inputData.features
    /\ pc' = "done"
    /\ UNCHANGED <<args, classifier, inputData, loaded, lastLoad, calls>>

(***************************************************************************)
(* A client that imports the module and uses the class directly.           *)
(***************************************************************************)
\* classifier = SpamClassifier(path)
ClientInit ==
    /\ pc = "imported"
    /\ \E path \in Paths : classifier' = NewClassifier(path)
    /\ pc' = "client"
    /\ UNCHANGED <<args, inputData, printed, events, loaded, lastLoad,
                   lastFeatures, lastPredict, calls>>

\* classifier.load_model()
ClientLoadModel ==
    /\ pc = "client"
    /\ calls < MaxCalls
    /\ \E env \in LoadEnvs :
         LET r == LoadModel(classifier, env) IN
         /\ classifier' = r.cl
         /\ lastLoad' = LoadOutcome(r)
         /\ loaded' = (loaded \/ r.ret)
         /\ events' = IF r.loader = "none" THEN events
                      ELSE Append(events, r.loader)
    /\ calls' = calls + 1
    /\ UNCHANGED <<pc, args, inputData, printed, lastFeatures, lastPredict>>

\* classifier.predict(features): returns the pair or raises to the client
ClientPredict ==
    /\ pc = "client"
    /\ calls < MaxCalls
    /\ \E f \in Features :
         \E run \in RunsFor(classifier, f) :
           LET r == Predict(classifier, f, run) IN
           /\ lastFeatures' = f
           /\ lastPredict' = r
           /\ events' = IF r.invoked = "none" THEN Append(events, "predict")
                        ELSE events \o <<"predict", r.invoked>>
    /\ calls' = calls + 1
    /\ pc' = "returned"
    /\ UNCHANGED <<args, classifier, inputData, printed, loaded, lastLoad>>

\* the client goes on to its next call; the returned pair is dropped
ClientResume ==
    /\ pc = "returned"
    /\ lastFeatures' = NoFeatures
    /\ lastPredict' = NoPredict
    /\ pc' = "client"
    /\ UNCHANGED <<args, classifier, inputData, printed, events, loaded,
                   lastLoad, calls>>

Next ==
    \/ MainCreateSample
    \/ MainLoad
    \/ MainModelInfo
    \/ MainReadInput
    \/ MainCheckFeatures
    \/ MainPredict
    \/ ClientInit
    \/ ClientLoadModel
    \/ ClientPredict
    \/ ClientResume

Spec == Init /\ [][Next]_vars

(***************************************************************************)
(* Properties                                                              *)
(***************************************************************************)
\* predict has been called, and its outcome is in lastPredict
Called == lastFeatures # NoFeatures

\* the call returned a pair
Returned == Called /\ ~lastPredict.raised

\* a number of [0, 1]
InUnit(a) == a.c = "fin" /\ 0 <= a.v /\ a.v <= SCALE

\* positions of main
MainPcs == {"main", "loaded", "parsed", "features", "done"}

\* C1: every pair predict returns consists of two scores in [0,1] that sum
\* to 1, whatever the raw output of the model is.
C1_ProbabilityPair ==
    Returned =>
        /\ InUnit(lastPredict.ham)
        /\ InUnit(lastPredict.spam)
        /\ FAdd(lastPredict.ham, lastPredict.spam) = One

\* C2: the model is run only on 25 columns; main answers a 'features' entry of
\* length N # 25 with the error "Expected 25 features, got N" and no
\* prediction; predict raises that error, without running the model, when the
\* flattened input does not have 25 columns.
C2_OnlyTwentyFiveFeatures ==
    /\ (Called /\ lastPredict.invoked # "none") =>
           /\ lastFeatures.kind \in {"list", "scalar"}
           /\ (IF lastFeatures.kind = "scalar" THEN 1
               ELSE IF lastFeatures.width = 0 THEN lastFeatures.len
               ELSE lastFeatures.len * lastFeatures.width) = 25
    /\ (/\ pc = "done"
        /\ inputData.kind = "object" /\ inputData.has
        /\ inputData.features.kind \in {"list", "text"}
        /\ inputData.features.len # 25) =>
           /\ printed = << [kind |-> "error", fmt |-> "json",
                            body |-> [error |-> "Expected 25 features, got",
                                      n |-> inputData.features.len]] >>
           /\ ~Called
           /\ \A i \in 1..Len(events) :
                  events[i] \notin {"predict", "serving_default", "call"}
    /\ (/\ Called
        /\ lastFeatures.kind \in {"list", "scalar"}
        /\ (IF lastFeatures.kind = "scalar" THEN 1
            ELSE IF lastFeatures.width = 0 THEN lastFeatures.len
            ELSE lastFeatures.len * lastFeatures.width) # 25) =>
           /\ lastPredict.raised
           /\ lastPredict.error = "Expected 25 features, got"
           /\ lastPredict.n = (IF lastFeatures.kind = "scalar" THEN 1
                               ELSE IF lastFeatures.width = 0
                               THEN lastFeatures.len
                               ELSE lastFeatures.len * lastFeatures.width)
           /\ lastPredict.invoked = "none"

\* main has refused a list of 26 numbers
C2_Witness ==
    /\ pc = "done"
    /\ inputData.has
    /\ inputData.features = [kind |-> "list", len |-> 26, width |-> 0]
    /\ Len(printed) = 1
    /\ printed[1].kind = "error"

\* C3: a successful run reports the pair with a decision consistent with it:
\* is_spam iff spam > ham (a tie is ham), confidence is the larger of the two,
\* predictions is [ham, spam], and the text label is SPAM exactly when is_spam
\* would be true for that pair.
C3_DecisionConsistent ==
    (pc = "done" /\ Returned) =>
        LET h == lastPredict.ham
            sp == lastPredict.spam
        IN IF args.output = "json"
           THEN /\ Len(printed) = 1
                /\ printed[1].kind = "result"
                /\ printed[1].body.ham_probability = h
                /\ printed[1].body.spam_probability = sp
                /\ printed[1].body.predictions = <<h, sp>>
                /\ printed[1].body.is_spam = FGt(sp, h)
                /\ (h = sp => ~printed[1].body.is_spam)
                /\ printed[1].body.confidence \in {h, sp}
                /\ ~FGt(h, printed[1].body.confidence)
                /\ ~FGt(sp, printed[1].body.confidence)
           ELSE /\ Len(printed) = 3
                /\ printed[2].kind = "result"
                /\ (printed[2].body.label = "SPAM") = FGt(sp, h)
                /\ printed[2].body.label \in {"SPAM", "HAM"}
                /\ (h = sp => printed[2].body.label = "HAM")

\* a text run that printed a tie as HAM
C3_Witness ==
    /\ pc = "done"
    /\ Returned
    /\ args.output = "text"
    /\ lastPredict.ham = lastPredict.spam
    /\ lastPredict.ham.c = "fin"
    /\ printed[2].body.label = "HAM"

\* the reports printed so far are one report: one print call, or the three
\* lines of a text result
OneReport ==
    \/ Len(printed) = 1
    \/ /\ Len(printed) = 3
       /\ \A i \in 1..3 : printed[i].kind = "result" /\ printed[i].fmt = "text"
       /\ printed[1].body.line = "Ham/Spam"
       /\ printed[2].body.line = "Classification"
       /\ printed[3].body.line = "Confidence"

\* no external step was made twice
NoRetry == \A i, j \in 1..Len(events) : events[i] = events[j] => i = j

\* C4: a run of main prints nothing until it ends, ends in every case, and has
\* then printed exactly one report, a result or an error and never both, with
\* no step made twice.
C4_OneReportNoRetry ==
    pc \in MainPcs =>
        /\ NoRetry
        /\ pc # "done" => (printed = << >> /\ ENABLED Next)
        /\ pc = "done" =>
             /\ OneReport
             /\ \A i \in 1..Len(printed) : printed[i].kind = printed[1].kind
             /\ printed[1].kind \in {"result", "error", "status", "model_info"}
             /\ (printed[1].kind = "result") = Returned
             /\ (Called /\ lastPredict.raised) => printed[1].kind = "error"
             /\ lastLoad.ret = "False" => printed[1].kind = "error"
             /\ ~ENABLED Next

\* a run in which predict raised ended with one error report
C4_Witness ==
    /\ pc = "done"
    /\ Called
    /\ lastPredict.raised
    /\ Len(printed) = 1
    /\ printed[1].kind = "error"
    /\ printed[1].fmt = "text"

\* C5: a run does at most one of sample creation, metadata report and
\* prediction; --create-sample wins over --model-info, which wins over
\* prediction: with --create-sample nothing is loaded, read or predicted, with
\* --model-info and a successful load the metadata is printed and the input
\* is neither read nor predicted on.
C5_OneActivity ==
    pc \in MainPcs =>
        LET did(e) == \E i \in 1..Len(events) : events[i] = e IN
        /\ ~(did("create_sample_model") /\ did("get_model_info"))
        /\ ~(did("create_sample_model") /\ did("predict"))
        /\ ~(did("get_model_info") /\ did("predict"))
        /\ args.create_sample =>
             /\ \A i \in 1..Len(events) : events[i] = "create_sample_model"
             /\ lastLoad = NoLoad
             /\ ~classifier.made
             /\ ~Called
             /\ pc = "done" => did("create_sample_model")
        /\ (~args.create_sample /\ args.model_info) =>
             /\ ~did("open")
             /\ ~did("predict")
             /\ ~Called
             /\ (pc = "done" /\ lastLoad.ret = "True") =>
                    /\ Len(printed) = 1
                    /\ printed[1].kind = "model_info"
        /\ did("predict") => (~args.create_sample /\ ~args.model_info)

\* a run with both flags created the sample and did nothing else
C5_Witness ==
    /\ pc = "done"
    /\ args.create_sample
    /\ args.model_info
    /\ events = <<"create_sample_model">>

\* C6: load_model picks the loader from the path alone: a directory goes to
\* the SavedModel loader, another path ending in '.h5' to the Keras loader,
\* any other path returns False with no loader called and no model set; a
\* loader that raises makes load_model return False.
C6_LoaderFromPath ==
    (classifier.made /\ lastLoad # NoLoad) =>
        LET path == classifier.model_path IN
        /\ path.isdir =>
             /\ lastLoad.loader = "tf.saved_model.load"
             /\ lastLoad.ret = "True" => classifier.model.kind = "SavedModel"
        /\ (~path.isdir /\ path.h5) =>
             /\ lastLoad.loader = "tf.keras.models.load_model"
             /\ lastLoad.ret = "True" => classifier.model.kind = "Keras"
        /\ (~path.isdir /\ ~path.h5) =>
             /\ lastLoad.loader = "none"
             /\ lastLoad.ret = "False"
             /\ classifier.model = NoModel
        /\ lastLoad.raised => lastLoad.ret = "False"
        /\ (lastLoad.loader # "none" /\ ~lastLoad.raised) => lastLoad.ret = "True"
        /\ (pc = "done" /\ lastLoad.ret = "False") =>
               printed = << [kind |-> "error", fmt |-> "json",
                             body |-> [error |-> "Failed to load model",
                                       n |-> 0]] >>

\* a directory whose name ends in '.h5' was loaded as a SavedModel
C6_Witness ==
    /\ classifier.made
    /\ classifier.model_path = [isdir |-> TRUE, h5 |-> TRUE]
    /\ lastLoad.ret = "True"
    /\ lastLoad.loader = "tf.saved_model.load"
    /\ classifier.model.kind = "SavedModel"

\* C7: once load_model has returned True for a directory, predict on 25
\* values calls the model's 'serving_default' signature; it does not fail for
\* want of that entry point.
C7_ServingEntryPoint ==
    (/\ Called
     /\ classifier.model_path.isdir
     /\ loaded
     /\ lastFeatures = [kind |-> "list", len |-> 25, width |-> 0]) =>
        /\ lastPredict.invoked = "serving_default"
        /\ lastPredict.error # "KeyError: 'serving_default'"

\* the extracted pair of a model output: (out[1], out[2]), or (1 - out[1],
\* out[1]) for a single output
ExtractedHam(out) == IF Len(out) = 2 THEN out[1] ELSE FSub(One, out[1])
ExtractedSpam(out) == IF Len(out) = 2 THEN out[2] ELSE out[1]

\* the sum of the pair differs from 1 by more than 0.01
OffByMoreThanTolerance(h, sp) ==
    LET d == FSub(FAdd(h, sp), One) IN
    \/ d.c \in {"big", "inf"}
    \/ d.c = "fin" /\ (d.v > 100 \/ d.v < -100)

\* the softmax of the claim: ham = exp(h) / (exp(h) + exp(sp)), spam = 1 - ham
SoftmaxPair(h, sp) ==
    LET ham == FDiv(FExp(h), FAdd(FExp(h), FExp(sp)))
    IN <<ham, FSub(One, ham)>>

\* the fallback is applied exactly when the sum is off by more than 0.01,
\* gives the softmax pair then, and leaves the pair unchanged otherwise
FallbackRule ==
    Returned =>
        LET h == ExtractedHam(lastPredict.out)
            sp == ExtractedSpam(lastPredict.out)
        IN /\ lastPredict.applied = OffByMoreThanTolerance(h, sp)
           /\ lastPredict.applied =>
                  <<lastPredict.ham, lastPredict.spam>> = SoftmaxPair(h, sp)
           /\ ~lastPredict.applied =>
                  <<lastPredict.ham, lastPredict.spam>> = <<h, sp>>

\* C8 (as stated): the fallback rule, and for a single-output model the
\* fallback is never applied.
C8_FallbackNeverForSingleOutput ==
    /\ FallbackRule
    /\ (Returned /\ Len(lastPredict.out) = 1) => ~lastPredict.applied

\* C8 (amended): the fallback rule, where the sum is the one the code computes
\* in floating point; for a single-output model the fallback is applied
\* exactly when the output is so large that 1 - spam rounds to -spam, and it
\* is not applied for any output of ordinary magnitude.
C8_FallbackRule ==
    /\ FallbackRule
    /\ (Returned /\ Len(lastPredict.out) = 1) =>
           /\ lastPredict.applied = (lastPredict.out[1].c = "big")
           /\ lastPredict.out[1].c = "fin" =>
                  /\ lastPredict.spam = lastPredict.out[1]
                  /\ lastPredict.ham.v + lastPredict.spam.v = SCALE

\* a single output of 1e20 was normalised to (0, 1)
C8_Witness ==
    /\ Returned
    /\ lastPredict.out = << Big(1) >>
    /\ lastPredict.applied
    /\ lastPredict.ham = Fin(0)
    /\ lastPredict.spam = One

\* C9: the fallback never changes the decision: for a raw two-value output
\* (h, s) the returned pair has spam > ham exactly when s > h.
C9_DecisionPreserved ==
    (Returned /\ Len(lastPredict.out) = 2) =>
        FGt(lastPredict.spam, lastPredict.ham)
            = FGt(lastPredict.out[2], lastPredict.out[1])

\* C10: a classifier on which no load_model call has succeeded has model,
\* input_signature and output_signature None, and predict on it raises.
C10_UnloadedStaysUnloaded ==
    (classifier.made /\ ~loaded) =>
        /\ classifier.model = NoModel
        /\ classifier.input_signature = "None"
        /\ classifier.output_signature = "None"
        /\ lastLoad.ret # "True"
        /\ Called => (lastPredict.raised /\ lastPredict.invoked = "none")

\* predict on 25 values raised after a load_model call whose loader raised
C10_Witness ==
    /\ classifier.made
    /\ ~loaded
    /\ lastLoad.ret = "False"
    /\ lastLoad.raised
    /\ Called
    /\ lastFeatures = [kind |-> "list", len |-> 25, width |-> 0]
    /\ lastPredict.raised
    /\ lastPredict.error = "'NoneType' object is not callable"

====
